---- MODULE Spec2Model ----
(***************************************************************************)
(* Greenmove reporting: the data loader, the aggregator, the report        *)
(* renderers (greenmove_reporting.py) and the command surface (cli.py).    *)
(*                                                                         *)
(* Numbers are fixed point: every measure (km, minutes, emission units)    *)
(* is an integer count of thousandths, so 4.0 km is 4000.  A pandas NaN    *)
(* is the marker NaN, an unparseable text cell of the store is BAD, a      *)
(* SQL NULL user or mode is the string NULL.                               *)
(***************************************************************************)
EXTENDS Integers, Sequences, FiniteSets, TLC

VARIABLES
    store,            \* the rows of tripanalyse.usagestat, as the query returns them
    df,               \* GreenmoveAnalytics.df
    stats_globales,   \* GreenmoveAnalytics.stats_globales
    stats_par_mode,   \* GreenmoveAnalytics.stats_par_mode
    files,            \* the files written so far
    last,             \* the last method call on the instance and its outcome
    pc,               \* position of cli.main
    args,             \* the parsed command line
    config,           \* the connection parameters cli.main settled on
    calls,            \* the method calls of this CLI run, in order
    exit_code,        \* the exit status of the CLI process
    batch,            \* the users a per-user batch loop still has to serve
    distance,         \* input of the distance bucketing
    categorie,        \* the bucket pd.cut gave it
    trajets_par_user, \* the number of trips of each user of a table
    selection,        \* the users a ranking kept, in its order
    segments,         \* the number of users of each activity segment
    user_segments     \* the activity segment pd.cut gave each user

vars == <<store, df, stats_globales, stats_par_mode, files, last,
          pc, args, config, calls, exit_code, batch, distance, categorie,
          trajets_par_user, selection, segments, user_segments>>

apiVars == <<store, df, stats_globales, stats_par_mode, files, last>>
cliVars == <<pc, args, config, calls, exit_code, batch>>
cutVars == <<distance, categorie, trajets_par_user, selection, segments, user_segments>>

----------------------------------------------------------------------------
(* Bounds of the model *)

MaxRows == 2          \* rows of the store
MaxDistanceKm == 101  \* largest whole-km distance given to the bucketing
MaxUsersArg == 2      \* largest N given to --users
MaxTrajets == 51      \* largest number of trips of one user

----------------------------------------------------------------------------
(* Values *)

NULL == "NULL"
NaN == 0 - 1
BAD == 0 - 2
Inf == 0 - 3
NaT == 0 - 1
BadTime == 0 - 2

Max(a, b) == IF a >= b THEN a ELSE b
Min(a, b) == IF a <= b THEN a ELSE b

Row(u, m, d, t, e) ==
    [utilisateur |-> u, start_time |-> 0, mode_transport |-> m,
     distance |-> d, duration_in_minutes |-> t, emission_co2 |-> e]

\* The rows the store may hold.  The regular ones, then one of each special
\* shape: a mode with no distance (with and without emission), fractions
\* below a hundredth, a bike trip of 3 km, a mode written "Car", a missing mode, a missing user, an unparseable number,
\* an unparseable timestamp.
RegularRows ==
    { Row(u, m[1], m[2], m[3], m[4]) :
        u \in {"u1", "u2"},
        m \in { <<"bike", 4000, 20000, 5000>>, <<"car", 3000, 10000, 600>> } }

SpecialRows ==
    { Row("u1", "walk", 0, 5000, 0),
      Row("u2", "walk", 0, 5000, 7000),
      Row("u2", "bike", 4, 4, 4),
      Row("u2", "bike", 3000, 12000, 0),
      Row("u1", "Car", 2000, 8000, 400),
      Row("u1", NULL, 4000, 20000, 5000),
      Row(NULL, "car", 3000, 10000, 600),
      Row("u1", "car", BAD, 10000, BAD),
      [Row("u2", "car", 12000, 30000, 2000) EXCEPT !.start_time = BadTime] }

RowPool == RegularRows \cup SpecialRows

\* The query orders by "startTime": the i-th row returned carries the i-th
\* timestamp (an unparseable one stays as it is).
Stamp(rows) ==
    [i \in 1..Len(rows) |->
        IF rows[i].start_time = BadTime THEN rows[i]
        ELSE [rows[i] EXCEPT !.start_time = i]]

SeqsUpTo(S, n) == UNION { [1..k -> S] : k \in 0..n }

Tables == { Stamp(s) : s \in SeqsUpTo(RowPool, MaxRows) }

----------------------------------------------------------------------------
(* The instance: GreenmoveAnalytics.__init__ *)

BaseColumns ==
    {"utilisateur", "start_time", "mode_transport", "distance",
     "duration_in_minutes", "emission_co2"}

Measures == {"distance", "duration_in_minutes", "emission_co2"}

\* self.df = None
NoneDf == [isNone |-> TRUE, rows |-> <<>>, typed |-> FALSE, columns |-> {}]

\* self.stats_globales = {}
EmptyStats ==
    [empty |-> TRUE, nombre_utilisateurs |-> 0, nombre_trajets |-> 0,
     distance_totale |-> 0, distance_moyenne |-> 0,
     duree_totale |-> 0, duree_moyenne |-> 0,
     emission_totale |-> 0, emission_moyenne |-> 0,
     periode_debut |-> NaT, periode_fin |-> NaT]

\* stats_par_mode is no attribute of the instance before the first aggregation
NoModeStats == [defined |-> FALSE, by |-> [m \in {} |-> 0]]

NoIntensites == [m \in {} |-> 0]

\* no thresholds looked at
NoSeuils == [excellent |-> 0, bon |-> 0, moyen |-> 0]

\* no share of the trips reported
NoParts == [m \in {} |-> 0]

NoCall ==
    [op |-> "none", arg |-> "", ret |-> FALSE, raised |-> FALSE,
     wrote |-> {}, diag |-> "", intensites |-> NoIntensites,
     courts |-> 0, parts |-> NoParts, niveau |-> "", seuils |-> NoSeuils,
     kg |-> 0, mode_max_co2 |-> "", pct_max_co2 |-> 0]

\* the outcome of a call: what it returned or raised, the files it wrote, its
\* diagnostic, and what it reported: the per-mode intensities, the number of
\* short car trips of the recommendation, the per-mode shares of the trips
Call(op, arg, ret, raised, wrote, diag, intens) ==
    [op |-> op, arg |-> arg, ret |-> ret, raised |-> raised,
     wrote |-> wrote, diag |-> diag, intensites |-> intens,
     courts |-> 0, parts |-> NoParts, niveau |-> "", seuils |-> NoSeuils,
     kg |-> 0, mode_max_co2 |-> "", pct_max_co2 |-> 0]

----------------------------------------------------------------------------
(* The data loader: connect_and_load_data *)

LoadOutcomes == {"connect_error", "query_error", "fetched"}

\* a faulty variant of to_numeric: text that is no number is left as it is
to_numeric_ignore(x) == x

\* pd.to_numeric(..., errors='coerce'): text that is no number becomes NaN
to_numeric(x) == IF x = BAD THEN NaN ELSE x

\* pd.to_datetime raises on a value it cannot parse
to_datetime_raises(rows) == \E i \in 1..Len(rows) : rows[i].start_time = BadTime

ConvertRow(r) ==
    [r EXCEPT !.distance = to_numeric(r.distance),
              !.duration_in_minutes = to_numeric(r.duration_in_minutes),
              !.emission_co2 = to_numeric(r.emission_co2)]

\* The table as pd.read_sql_query hands it over
FetchedDf(rows) ==
    [isNone |-> FALSE, rows |-> rows, typed |-> FALSE, columns |-> BaseColumns]

\* The table after the four conversions
ConvertedDf(rows) ==
    [isNone |-> FALSE, rows |-> [i \in 1..Len(rows) |-> ConvertRow(rows[i])],
     typed |-> TRUE, columns |-> BaseColumns]

\* self.df when connect_and_load_data returns
LoadedDf(old, rows, outcome) ==
    IF outcome # "fetched" THEN old
    ELSE IF to_datetime_raises(rows) THEN FetchedDf(rows)
    ELSE ConvertedDf(rows)

\* the value connect_and_load_data returns
LoadResult(rows, outcome) == outcome = "fetched" /\ ~to_datetime_raises(rows)

connect_and_load_data(outcome) ==
    /\ df' = LoadedDf(df, store, outcome)
    /\ last' = Call("connect_and_load_data", "", LoadResult(store, outcome), FALSE,
                    {}, IF LoadResult(store, outcome) THEN "charge" ELSE "erreur",
                    NoIntensites)
    /\ UNCHANGED <<store, stats_globales, stats_par_mode>>

----------------------------------------------------------------------------
(* The aggregator: calculer_statistiques_globales *)

RECURSIVE SumCol(_, _)
\* Series.sum(): NaN cells are skipped, the sum of nothing is 0
SumCol(rows, f) ==
    IF rows = <<>> THEN 0
    ELSE (IF Head(rows)[f] = NaN THEN 0 ELSE Head(rows)[f]) + SumCol(Tail(rows), f)

\* Series.count() of a text column: the cells that are not missing
CountCol(rows, f) == Cardinality({ i \in 1..Len(rows) : rows[i][f] # NULL })

\* a faulty variant of MeanCol: the mean of nothing is 0
MeanColOuZero(rows, f) ==
    IF Cardinality({ i \in 1..Len(rows) : rows[i][f] # NaN }) = 0 THEN 0
    ELSE SumCol(rows, f) \div Cardinality({ i \in 1..Len(rows) : rows[i][f] # NaN })

\* Series.mean(): NaN cells are skipped, the mean of nothing is NaN
MeanCol(rows, f) ==
    IF Cardinality({ i \in 1..Len(rows) : rows[i][f] # NaN }) = 0 THEN NaN
    ELSE SumCol(rows, f) \div Cardinality({ i \in 1..Len(rows) : rows[i][f] # NaN })

\* Series.nunique(): distinct values, missing ones left out
NUnique(rows, f) == Cardinality({ rows[i][f] : i \in 1..Len(rows) } \ {NULL})

MinOf(S) ==
    IF S = {} THEN NaT
    ELSE LET x == CHOOSE y \in S : \A z \in S : y <= z IN x

MaxOf(S) ==
    IF S = {} THEN NaT
    ELSE LET x == CHOOSE y \in S : \A z \in S : y >= z IN x

Times(rows) == { rows[i].start_time : i \in 1..Len(rows) }

GlobalStats(rows) ==
    [empty |-> FALSE,
     nombre_utilisateurs |-> NUnique(rows, "utilisateur"),
     nombre_trajets |-> Len(rows),
     distance_totale |-> SumCol(rows, "distance"),
     distance_moyenne |-> MeanCol(rows, "distance"),
     duree_totale |-> SumCol(rows, "duration_in_minutes"),
     duree_moyenne |-> MeanCol(rows, "duration_in_minutes"),
     emission_totale |-> SumCol(rows, "emission_co2"),
     emission_moyenne |-> MeanCol(rows, "emission_co2"),
     periode_debut |-> MinOf(Times(rows)),
     periode_fin |-> MaxOf(Times(rows))]

\* DataFrame.round(2) on thousandths: to the nearest hundredth, ties to even
Round2(x) ==
    IF x = NaN THEN NaN
    ELSE LET q == x \div 10
             r == x % 10
         IN IF r < 5 THEN q * 10
            ELSE IF r > 5 THEN (q + 1) * 10
            ELSE IF q % 2 = 0 THEN q * 10 ELSE (q + 1) * 10

\* groupby('mode_transport'): the group keys; rows with a missing key are dropped
GroupKeys(rows) == { rows[i].mode_transport : i \in 1..Len(rows) } \ {NULL}

\* str.lower() on the modes of the store
Lower(m) == IF m = "Car" THEN "car" ELSE m

\* a faulty variant of GroupRows: the case of the mode is not looked at
GroupRowsSansCasse(rows, m) ==
    SelectSeq(rows, LAMBDA r : Lower(r.mode_transport) = Lower(m))

\* the rows of one group: exact equality on the mode string
GroupRows(rows, m) == SelectSeq(rows, LAMBDA r : r.mode_transport = m)

\* groupby('mode_transport').agg({...}).round(2)
ModeStats(rows) ==
    [m \in GroupKeys(rows) |->
        LET g == GroupRows(rows, m) IN
        [count |-> CountCol(g, "utilisateur"),
         distance_sum |-> Round2(SumCol(g, "distance")),
         distance_mean |-> Round2(MeanCol(g, "distance")),
         duree_sum |-> Round2(SumCol(g, "duration_in_minutes")),
         duree_mean |-> Round2(MeanCol(g, "duration_in_minutes")),
         emission_sum |-> Round2(SumCol(g, "emission_co2")),
         emission_mean |-> Round2(MeanCol(g, "emission_co2"))]]

\* The aggregation raises where self.df is None, and where a measure column
\* still holds text (a fetched table whose conversion did not run).
CalcRaises(d) ==
    \/ d.isNone
    \/ \E i \in 1..Len(d.rows) : \E f \in Measures : d.rows[i][f] = BAD

\* a faulty variant of calculer_statistiques_globales: a second aggregation
\* counts the trips on top of those already counted
calculer_statistiques_cumulees ==
    /\ stats_globales' =
          IF CalcRaises(df) THEN stats_globales
          ELSE IF stats_globales.empty THEN GlobalStats(df.rows)
          ELSE [GlobalStats(df.rows) EXCEPT !.nombre_trajets = 2 * Len(df.rows)]
    /\ stats_par_mode' = IF CalcRaises(df) THEN stats_par_mode
                         ELSE [defined |-> TRUE, by |-> ModeStats(df.rows)]
    /\ last' = Call("calculer_statistiques_globales", "", ~CalcRaises(df),
                    CalcRaises(df), {}, "", NoIntensites)
    /\ UNCHANGED <<store, df>>

calculer_statistiques_globales ==
    /\ stats_globales' = IF CalcRaises(df) THEN stats_globales ELSE GlobalStats(df.rows)
    /\ stats_par_mode' = IF CalcRaises(df) THEN stats_par_mode
                         ELSE [defined |-> TRUE, by |-> ModeStats(df.rows)]
    /\ last' = Call("calculer_statistiques_globales", "", ~CalcRaises(df),
                    CalcRaises(df), {}, "", NoIntensites)
    /\ UNCHANGED <<store, df>>

----------------------------------------------------------------------------
(* File names: a name is the sequence of its pieces, so that
   'rapport_utilisateur_' + user + '.pdf' and str.replace can be computed *)

NoName == <<>>

\* filename.replace('.pdf', '.html')
ReplacePdfHtml(name) ==
    [i \in 1..Len(name) |-> IF name[i] = ".pdf" THEN ".html" ELSE name[i]]

IoOutcomes == {"io_ok", "io_error"}

----------------------------------------------------------------------------
(* Carbon intensity per mode, as each renderer computes it *)

GrammesParKg == 1000

\* a / b on floats, in thousandths: a division by zero gives inf or nan, no
\* fault.  A quotient of two million or more is kept at two million, so that
\* the thousandths stay within 32 bits.
FloatDiv(a, b) ==
    IF a = NaN \/ b = NaN THEN NaN
    ELSE IF b = 0 THEN (IF a = 0 THEN NaN ELSE Inf)
    ELSE IF a \div b >= 2000000 THEN 2000000 * 1000
    ELSE (a \div b) * 1000 + ((a % b) * 1000) \div b

\* (co2_tot * 1000) / dist_tot if dist_tot > 0 else 0
intensite_gardee(co2_tot, dist_tot) ==
    IF dist_tot > 0 THEN FloatDiv(co2_tot * GrammesParKg, dist_tot) ELSE 0

\* (emission sum * 1000) / distance sum, as the text analysis writes it
intensite_texte(co2_tot, dist_tot) == FloatDiv(co2_tot * GrammesParKg, dist_tot)

\* the intensity column of the HTML tables and of the PDF mode page
IntensitesGardees(rows) ==
    LET mode_stats == ModeStats(rows)
    IN [m \in GroupKeys(rows) |->
           intensite_gardee(mode_stats[m].emission_sum, mode_stats[m].distance_sum)]

\* the "Intensité carbone" lines of the text analysis
IntensitesTexte(rows) ==
    LET mode_stats == ModeStats(rows)
    IN [m \in GroupKeys(rows) |->
           intensite_texte(mode_stats[m].emission_sum, mode_stats[m].distance_sum)]

----------------------------------------------------------------------------
(* The recommendation on the mode that emits most *)

\* self.df.groupby('mode_transport')['emission_co2'].sum(), for one mode
EmissionSum(rows, m) == SumCol(GroupRows(rows, m), "emission_co2")

\* .max() of these sums
EmissionMax(rows) ==
    LET S == { EmissionSum(rows, m) : m \in GroupKeys(rows) }
    IN CHOOSE x \in S : \A y \in S : y <= x

\* .idxmax(): the first key, in the order groupby sorts the keys, that has
\* the largest sum
mode_max_co2(rows) ==
    LET ModeOrder == <<"Car", "bike", "car", "walk">>
        i == CHOOSE k \in 1..Len(ModeOrder) :
                 /\ ModeOrder[k] \in GroupKeys(rows)
                 /\ EmissionSum(rows, ModeOrder[k]) = EmissionMax(rows)
                 /\ \A j \in 1..(k - 1) :
                       ~(/\ ModeOrder[j] \in GroupKeys(rows)
                         /\ EmissionSum(rows, ModeOrder[j]) = EmissionMax(rows))
    IN ModeOrder[i]

\* x / total * 100 on floats, in thousandths of a percent
PctOf(x, total) ==
    IF FloatDiv(x, total) \in {NaN, Inf} THEN FloatDiv(x, total)
    ELSE FloatDiv(x, total) * 100

\* the largest sum / stats['emission_totale'] * 100
pct_max_co2(rows, stats) == PctOf(EmissionMax(rows), stats.emission_totale)

\* the outcome c of the text analysis or of the PDF analysis, with the mode
\* it names and the share it states
AvecReco(c, rows, stats) ==
    IF c.raised \/ c.op \notin {"generer_analyse_textuelle", "generer_analyse_pdf"} THEN c
    ELSE [c EXCEPT !.mode_max_co2 = mode_max_co2(rows),
                   !.pct_max_co2 = pct_max_co2(rows, stats)]

----------------------------------------------------------------------------
(* The total emission in kilograms, as each output writes it *)

\* the reports and the analyses: stats['emission_totale'] is written as kg
kg_rapport(stats) == stats.emission_totale

\* the --stats listing: stats['emission_totale'] / 1000 is written as kg
kg_stats(stats) == FloatDiv(stats.emission_totale, 1000 * 1000)

\* the outcome c of a call that wrote its output, with the kilograms it shows
AvecKg(c, kg) == IF c.raised THEN c ELSE [c EXCEPT !.kg = kg]

----------------------------------------------------------------------------
(* The level of the global carbon intensity *)

\* SEUIL_EXCELLENT, SEUIL_BON, SEUIL_MOYEN where config.py cannot be imported
\* (and the defaults of the .get calls), in thousandths of a g/km
SeuilsDefaut == [excellent |-> 15000, bon |-> 50000, moyen |-> 100000]

\* the same, taken from SEUILS_INTENSITE_CARBONE of config.py as it ships
SEUILS_INTENSITE_CARBONE == [excellent |-> 15000, bon |-> 20000, moyen |-> 40000]

\* the thresholds of the process: those of config.py where it can be
\* imported, the defaults where it cannot
Seuils(config_py) == IF config_py THEN SEUILS_INTENSITE_CARBONE ELSE SeuilsDefaut

\* x < y on floats: false where x is nan or inf
FloatLt(x, y) == x # NaN /\ x # Inf /\ x < y

\* (stats['emission_totale'] * 1000) / stats['distance_totale']
intensite_globale(stats) ==
    FloatDiv(stats.emission_totale * GrammesParKg, stats.distance_totale)

\* generer_analyse_html: the level against the configurable thresholds
niveau_html(x, seuils) ==
    IF FloatLt(x, seuils.excellent) THEN "EXCELLENT"
    ELSE IF FloatLt(x, seuils.bon) THEN "BON"
    ELSE IF FloatLt(x, seuils.moyen) THEN "MOYEN"
    ELSE "A AMELIORER"

\* _page_analyse_resume_executif: the level against 80, 120 and 180
niveau_pdf(x) ==
    IF FloatLt(x, 80000) THEN "EXCELLENT"
    ELSE IF FloatLt(x, 120000) THEN "BON"
    ELSE IF FloatLt(x, 180000) THEN "MOYEN"
    ELSE "A AMELIORER"

\* the outcome c of an analysis call, with the level it shows
AvecNiveau(c, stats, seuils) ==
    IF c.raised THEN c
    ELSE [c EXCEPT !.seuils = seuils,
                   !.niveau = IF c.op = "generer_analyse_html"
                              THEN niveau_html(intensite_globale(stats), seuils)
                              ELSE niveau_pdf(intensite_globale(stats))]

----------------------------------------------------------------------------
(* The recommendation on short car trips and the modal split *)

\* a faulty variant of trajets_courts_voiture: the mode is not looked at
trajets_courts_tous(rows) ==
    Len(SelectSeq(rows, LAMBDA r : r.distance # NaN /\ r.distance < 5000))

\* len(self.df[(self.df['mode_transport'] == 'car') & (self.df['distance'] < 5)]):
\* a comparison with NaN is false.  The line is written when the count is > 0.
trajets_courts_voiture(rows) ==
    Len(SelectSeq(rows, LAMBDA r : /\ r.mode_transport = "car"
                                   /\ r.distance # NaN
                                   /\ r.distance < 5000))

\* (count / stats['nombre_trajets']) * 100, in thousandths of a percent
pct(count, nombre_trajets) == FloatDiv(count * 1000, nombre_trajets * 1000) * 100

\* self.df['mode_transport'].value_counts(): the rows of each mode, then
\* the share of each mode as the summary page of the analysis writes it
PartsModes(rows, stats) ==
    [m \in GroupKeys(rows) |-> pct(Len(GroupRows(rows, m)), stats.nombre_trajets)]

\* the --stats listing: 'utilisateur': 'count' of each group over nombre_trajets
PartsStats(rows, stats) ==
    [m \in GroupKeys(rows) |->
        pct(CountCol(GroupRows(rows, m), "utilisateur"), stats.nombre_trajets)]

----------------------------------------------------------------------------
(* The renderers *)

\* Every renderer but the per-user one formats stats['periode_debut'] and
\* plots or ranks the per-mode groups: it raises on a missing table, on the
\* empty statistics dict, on an undefined period, on a period that is still
\* unparsed text (no strftime) and where there is no group.
RenderRaises(d, stats) ==
    \/ CalcRaises(d)
    \/ stats.empty
    \/ stats.periode_debut = NaT
    \/ stats.periode_debut = BadTime
    \/ GroupKeys(d.rows) = {}

\* the columns the PDF pages add to self.df
ColumnsRapportPdf == {"vitesse_kmh", "categorie_distance", "date", "jour_semaine", "heure"}
ColumnsAnalysePdf == {"vitesse_kmh"}

AddColumns(d, cols) == [d EXCEPT !.columns = d.columns \cup cols]

\* self.df[self.df['utilisateur'] == utilisateur]
UserRows(rows, u) == SelectSeq(rows, LAMBDA r : r.utilisateur # NULL /\ r.utilisateur = u)

\* a faulty variant of UserReportSkipped: the empty slice is not looked at
UserReportNeverSkipped(rows, u) == FALSE

\* if len(df_user) == 0: print the diagnostic and return
UserReportSkipped(rows, u) == Len(UserRows(rows, u)) = 0

\* df_user['mode_transport'].mode()[0] has no element when every mode is missing
UserModeRaises(rows, u) ==
    \A i \in 1..Len(UserRows(rows, u)) : UserRows(rows, u)[i].mode_transport = NULL

\* a faulty variant of UserReportName: the default name leaves the user out
UserReportNameSansId(u, filename) ==
    IF filename = NoName THEN <<"rapport_utilisateur", ".pdf">> ELSE filename

\* filename = f'rapport_utilisateur_{utilisateur}.pdf' if filename is None
UserReportName(u, filename) ==
    IF filename = NoName THEN <<"rapport_utilisateur_", u, ".pdf">> ELSE filename

UserReportCall(d, u, filename, io) ==
    IF d.isNone THEN
        Call("generer_rapport_utilisateur", u, FALSE, TRUE, {}, "", NoIntensites)
    ELSE IF UserReportSkipped(d.rows, u) THEN
        Call("generer_rapport_utilisateur", u, TRUE, FALSE, {}, "aucune_donnee", NoIntensites)
    ELSE IF io = "io_error" THEN
        Call("generer_rapport_utilisateur", u, FALSE, TRUE, {}, "", NoIntensites)
    ELSE IF UserModeRaises(d.rows, u) THEN
        Call("generer_rapport_utilisateur", u, FALSE, TRUE,
             {UserReportName(u, filename)}, "", NoIntensites)
    ELSE
        Call("generer_rapport_utilisateur", u, TRUE, FALSE,
             {UserReportName(u, filename)}, "genere", NoIntensites)

generer_rapport_utilisateur(u, filename, io) ==
    /\ last' = UserReportCall(df, u, filename, io)
    /\ UNCHANGED <<store, df, stats_globales, stats_par_mode>>

\* with open(filename, 'w'): the file exists as soon as it is opened
TexteCall(d, stats, filename, io) ==
    IF io = "io_error" THEN
        Call("generer_analyse_textuelle", "", FALSE, TRUE, {}, "", NoIntensites)
    ELSE IF RenderRaises(d, stats) THEN
        Call("generer_analyse_textuelle", "", FALSE, TRUE, {filename}, "", NoIntensites)
    ELSE
        [Call("generer_analyse_textuelle", "", TRUE, FALSE, {filename}, "genere",
              IntensitesTexte(d.rows))
         EXCEPT !.courts = trajets_courts_voiture(d.rows)]

generer_analyse_textuelle(filename, io) ==
    /\ last' = AvecReco(AvecKg(TexteCall(df, stats_globales, filename, io),
                               kg_rapport(stats_globales)),
                        df.rows, stats_globales)
    /\ UNCHANGED <<store, df, stats_globales, stats_par_mode>>

\* generer_rapport_html: the document is built first, the file opened last
RapportHtmlCall(d, stats, filename, io) ==
    IF RenderRaises(d, stats) \/ io = "io_error" THEN
        Call("generer_rapport_html", "html", FALSE, TRUE, {}, "", NoIntensites)
    ELSE
        Call("generer_rapport_html", "html", TRUE, FALSE, {filename}, "genere",
             IntensitesGardees(d.rows))

\* generer_rapport_pdf, PDF branch: PdfPages opens the file, then the pages are drawn
RapportPdfCall(d, stats, filename, io) ==
    IF io = "io_error" THEN
        Call("generer_rapport_pdf", "pdf", FALSE, TRUE, {}, "", NoIntensites)
    ELSE IF RenderRaises(d, stats) THEN
        Call("generer_rapport_pdf", "pdf", FALSE, TRUE, {filename}, "", NoIntensites)
    ELSE
        Call("generer_rapport_pdf", "pdf", TRUE, FALSE, {filename}, "genere", NoIntensites)

RapportCall(d, stats, filename, format, io) ==
    IF format = "html" THEN RapportHtmlCall(d, stats, ReplacePdfHtml(filename), io)
    ELSE RapportPdfCall(d, stats, filename, io)

generer_rapport_pdf(filename, format, io) ==
    /\ last' = AvecKg(RapportCall(df, stats_globales, filename, format, io),
                      kg_rapport(stats_globales))
    /\ df' = IF format # "html" /\ ~last'.raised THEN AddColumns(df, ColumnsRapportPdf)
             ELSE df
    /\ UNCHANGED <<store, stats_globales, stats_par_mode>>

\* generer_analyse_html: the level is computed first, the file opened last
AnalyseHtmlCall(d, stats, filename, io) ==
    IF RenderRaises(d, stats) \/ io = "io_error" THEN
        Call("generer_analyse_html", "html", FALSE, TRUE, {}, "", NoIntensites)
    ELSE
        Call("generer_analyse_html", "html", TRUE, FALSE, {filename}, "genere",
             IntensitesGardees(d.rows))

AnalysePdfCall(d, stats, filename, io) ==
    IF io = "io_error" THEN
        Call("generer_analyse_pdf", "pdf", FALSE, TRUE, {}, "", NoIntensites)
    ELSE IF RenderRaises(d, stats) THEN
        Call("generer_analyse_pdf", "pdf", FALSE, TRUE, {filename}, "", NoIntensites)
    ELSE
        [Call("generer_analyse_pdf", "pdf", TRUE, FALSE, {filename}, "genere",
              IntensitesGardees(d.rows))
         EXCEPT !.courts = trajets_courts_voiture(d.rows),
                !.parts = PartsModes(d.rows, stats)]

AnalyseCall(d, stats, filename, format, io) ==
    IF format = "html" THEN AnalyseHtmlCall(d, stats, ReplacePdfHtml(filename), io)
    ELSE AnalysePdfCall(d, stats, filename, io)

generer_analyse_pdf(filename, format, io) ==
    /\ last' = AvecReco(AvecKg(AvecNiveau(AnalyseCall(df, stats_globales, filename,
                                                      format, io),
                                          stats_globales, Seuils(args.config_py)),
                               kg_rapport(stats_globales)),
                        df.rows, stats_globales)
    /\ df' = IF format # "html" /\ ~last'.raised THEN AddColumns(df, ColumnsAnalysePdf)
             ELSE df
    /\ UNCHANGED <<store, stats_globales, stats_par_mode>>

----------------------------------------------------------------------------
(* The command line left idle, and the bucketing left idle *)

NoArgs ==
    [host |-> NULL, db |-> NULL, user |-> NULL, password |-> NULL,
     scope |-> "none", all |-> FALSE, global_report |-> FALSE,
     users |-> <<>>, user_id |-> NULL, text |-> FALSE, analyse |-> FALSE,
     stats |-> FALSE, format |-> "pdf", output |-> NoName, quiet |-> FALSE,
     config_py |-> FALSE]

NoConfig == [host |-> NULL, database |-> NULL, user |-> NULL, password |-> NULL]

CliIdle ==
    /\ pc = "idle" /\ args = NoArgs /\ config = NoConfig
    /\ calls = <<>> /\ exit_code = NaN /\ batch = <<>> /\ files = {}

NoTop == [op |-> "", n |-> 0, index |-> <<>>]

CutIdle ==
    /\ distance = 0 /\ categorie = "idle"
    /\ trajets_par_user = <<>> /\ selection = NoTop
    /\ segments = <<>> /\ user_segments = <<>>

----------------------------------------------------------------------------
(* SpecApi: one GreenmoveAnalytics instance, its methods called in any order
   with their default file names *)

UserIds == {"u1", "u2", "u9"}
Formats == {"pdf", "html"}

DefaultTexte == <<"analyse_greenmove", ".txt">>
DefaultRapport == <<"rapport_greenmove", ".pdf">>
DefaultAnalyse == <<"analyse_greenmove", ".pdf">>

InitApi ==
    /\ store \in Tables
    /\ df = NoneDf
    /\ stats_globales = EmptyStats
    /\ stats_par_mode = NoModeStats
    /\ last = NoCall
    /\ CliIdle
    /\ CutIdle

ApiLoad ==
    /\ \E o \in LoadOutcomes : connect_and_load_data(o)
    /\ UNCHANGED <<files, cliVars, cutVars>>

ApiCalc ==
    /\ calculer_statistiques_globales
    /\ UNCHANGED <<files, cliVars, cutVars>>

ApiRapportUtilisateur ==
    /\ \E u \in UserIds, io \in IoOutcomes : generer_rapport_utilisateur(u, NoName, io)
    /\ UNCHANGED <<files, cliVars, cutVars>>

ApiAnalyseTextuelle ==
    /\ \E io \in IoOutcomes : generer_analyse_textuelle(DefaultTexte, io)
    /\ UNCHANGED <<files, cliVars, cutVars>>

ApiRapport ==
    /\ \E f \in Formats, io \in IoOutcomes : generer_rapport_pdf(DefaultRapport, f, io)
    /\ UNCHANGED <<files, cliVars, cutVars>>

ApiAnalyse ==
    /\ \E f \in Formats, io \in IoOutcomes : generer_analyse_pdf(DefaultAnalyse, f, io)
    /\ UNCHANGED <<files, cliVars, cutVars>>

\* the trip the database gains between two loads
NewTrip == Row("u2", "car", 3000, 10000, 600)

\* tripanalyse.usagestat is written by others: a trip is recorded
ApiStoreChange ==
    /\ Len(store) < MaxRows
    /\ store' = Stamp(Append(store, NewTrip))
    /\ UNCHANGED <<df, stats_globales, stats_par_mode, last, files, cliVars, cutVars>>

NextApi ==
    \/ ApiStoreChange
    \/ ApiLoad
    \/ ApiCalc
    \/ ApiRapportUtilisateur
    \/ ApiAnalyseTextuelle
    \/ ApiRapport
    \/ ApiAnalyse

SpecApi == InitApi /\ [][NextApi]_vars

----------------------------------------------------------------------------
(* The command surface: cli.main and the top-level handler of cli.py *)

\* config.DB_CONFIG as config.py ships it: every key is set
DB_CONFIG == [host |-> "config_host", database |-> "greenmove",
              user |-> "psqladminun", password |-> "config_password"]

\* Python truth of an option value: None and '' are false
Truthy(x) == x # NULL /\ x # ""

\* --users N is None when absent, <<N>> stands for the integer N
NoUsers == <<>>
UsersTruthy(n) == n # NoUsers /\ n[1] # 0

Args(host, db, user, scope, n, uid, format, output, quiet, config_py) ==
    [host |-> host, db |-> db, user |-> user, password |-> NULL,
     scope |-> scope,
     all |-> scope = "all", global_report |-> scope = "global",
     users |-> n, user_id |-> uid,
     text |-> scope = "text", analyse |-> scope = "analyse",
     stats |-> scope = "stats",
     format |-> format, output |-> output, quiet |-> quiet,
     config_py |-> config_py]

OutputArgs == {NoName, <<"out", ".pdf">>, <<"out", ".html">>}
FormatArgs == {"pdf", "html", "both"}
UsersArgs == { <<n>> : n \in (0 - 1)..MaxUsersArg }
UserIdArgs == {"u1", "u9", ""}

\* what argparse lets through: exactly one flag of the exclusive group
ScopeArgs ==
    { <<"all", NoUsers, NULL, f, NoName>> : f \in FormatArgs }
    \cup { <<"global", NoUsers, NULL, f, o>> : f \in FormatArgs, o \in OutputArgs }
    \cup { <<"users", n, NULL, "pdf", NoName>> : n \in UsersArgs }
    \cup { <<"user_id", NoUsers, u, "pdf", o>> : u \in UserIdArgs, o \in OutputArgs }
    \cup { <<"text", NoUsers, NULL, "pdf", o>> : o \in OutputArgs }
    \cup { <<"analyse", NoUsers, NULL, f, o>> : f \in FormatArgs, o \in OutputArgs }
    \cup { <<"stats", NoUsers, NULL, "pdf", NoName>> }

ArgSets ==
    { Args(h, d, u, sc[1], sc[2], sc[3], sc[4], sc[5], q, c) :
        h \in {NULL, "h"}, d \in {NULL, "d"}, u \in {NULL, "usr"},
        sc \in ScopeArgs, q \in BOOLEAN, c \in BOOLEAN }

\* the stores of a CLI run
CliRowPool ==
    { Row("u1", "bike", 4000, 20000, 5000),
      Row("u2", "car", 3000, 10000, 600),
      Row("u1", NULL, 4000, 20000, 5000),
      [Row("u2", "car", 12000, 30000, 2000) EXCEPT !.start_time = BadTime] }

CliTables == { Stamp(s) : s \in SeqsUpTo(CliRowPool, MaxRows) }

\* if not all([args.host, args.db, args.user]): the check of the ImportError branch
ConfigIncomplete(a) == ~(Truthy(a.host) /\ Truthy(a.db) /\ Truthy(a.user))

\* the configuration dict built from the command line
ConfigFromArgs(a) ==
    [host |-> a.host, database |-> a.db, user |-> a.user, password |-> a.password]

\* whether the try block of "Charger la configuration" ends in sys.exit(1)
ConfigAborts(a) == ~a.config_py /\ ConfigIncomplete(a)

\* the configuration main settles on
SelectedConfig(a) ==
    IF a.config_py THEN (IF ~Truthy(a.host) THEN DB_CONFIG ELSE ConfigFromArgs(a))
    ELSE [ConfigFromArgs(a) EXCEPT !.password =
             IF Truthy(a.password) THEN a.password ELSE "typed_password"]

\* ['pdf', 'html'] if args.format == 'both' else [args.format]
formats_list(a) == IF a.format = "both" THEN <<"pdf", "html">> ELSE <<a.format>>

ext(fmt) == IF fmt = "html" THEN ".html" ELSE ".pdf"

\* args.output or default
OutputOr(a, default) == IF a.output # NoName THEN a.output ELSE default

Item(op, arg, filename) == [op |-> op, arg |-> arg, filename |-> filename]

\* Series.value_counts(): the users with a row, by falling trip count; the
\* order among equal counts is not fixed
TripCount(rows, u) == Len(UserRows(rows, u))
UsersOf(rows) == { rows[i].utilisateur : i \in 1..Len(rows) } \ {NULL}

\* the sort of value_counts: the orders of the users of t by falling count
sort_values(t) ==
    { o \in [1..Cardinality(DOMAIN t) -> DOMAIN t] :
        /\ \A i, j \in DOMAIN o : i # j => o[i] # o[j]
        /\ \A i, j \in DOMAIN o : i < j => t[o[i]] >= t[o[j]] }

value_counts(rows) == sort_values([u \in UsersOf(rows) |-> TripCount(rows, u)])

\* the last n of o, where head keeps the first n
tail(o, n) ==
    IF n >= 0 THEN SubSeq(o, Len(o) - Min(n, Len(o)) + 1, Len(o))
    ELSE SubSeq(o, Min(0 - n, Len(o)) + 1, Len(o))

\* Series.head(n): the first n, and all but the last -n for a negative n
head(o, n) ==
    IF n >= 0 THEN SubSeq(o, 1, Min(n, Len(o)))
    ELSE SubSeq(o, 1, Max(Len(o) + n, 0))

TopCinq == 5

\* the renderer calls of each branch, in the order main makes them
PlanGlobal(a) ==
    [i \in 1..Len(formats_list(a)) |->
        Item("generer_rapport_pdf", formats_list(a)[i],
             OutputOr(a, <<"rapport_greenmove_global", ext(formats_list(a)[i])>>))]

PlanText(a) ==
    << Item("generer_analyse_textuelle", "", OutputOr(a, <<"analyse_greenmove", ".txt">>)) >>

PlanAnalyse(a) ==
    [i \in 1..Len(formats_list(a)) |->
        Item("generer_analyse_pdf", formats_list(a)[i],
             OutputOr(a, <<"analyse_greenmove", ext(formats_list(a)[i])>>))]

PlanUserId(a) ==
    << Item("generer_rapport_utilisateur", a.user_id,
            OutputOr(a, <<"rapport_utilisateur_", a.user_id, ".pdf">>)) >>

PlanUsers(top_users) ==
    [i \in 1..Len(top_users) |-> Item("generer_rapport_utilisateur", top_users[i], NoName)]

PlanAll(a, top_users) ==
    [i \in 1..Len(formats_list(a)) |->
        Item("generer_rapport_pdf", formats_list(a)[i],
             <<"rapport_greenmove_global", ext(formats_list(a)[i])>>)]
    \o [i \in 1..Len(formats_list(a)) |->
        Item("generer_analyse_pdf", formats_list(a)[i],
             <<"analyse_greenmove", ext(formats_list(a)[i])>>)]
    \o << Item("generer_analyse_textuelle", "", <<"analyse_greenmove", ".txt">>) >>
    \o PlanUsers(top_users)

\* the if / elif chain of "Exécuter l'action demandée": the branch whose test
\* is the first to be true, "none" where every test is false
Branch(a) ==
    IF a.stats THEN "stats"
    ELSE IF a.global_report THEN "global"
    ELSE IF a.text THEN "text"
    ELSE IF a.analyse THEN "analyse"
    ELSE IF Truthy(a.user_id) THEN "user_id"
    ELSE IF UsersTruthy(a.users) THEN "users"
    ELSE IF a.all THEN "all"
    ELSE "none"

\* the renderer calls of the branch taken
Plans(a, rows) ==
    CASE Branch(a) = "stats" -> { << Item("stats", "", NoName) >> }
      [] Branch(a) = "global" -> { PlanGlobal(a) }
      [] Branch(a) = "text" -> { PlanText(a) }
      [] Branch(a) = "analyse" -> { PlanAnalyse(a) }
      [] Branch(a) = "user_id" -> { PlanUserId(a) }
      [] Branch(a) = "users" ->
            { PlanUsers(head(o, a.users[1])) : o \in value_counts(rows) }
      [] Branch(a) = "all" ->
            { PlanAll(a, head(o, TopCinq)) : o \in value_counts(rows) }
      [] Branch(a) = "none" -> { <<>> }

\* print(f"✓ {args.users} rapports générés"): the number the closing line of
\* the --users branch states
rapports_annonces(a) == a.users[1]

\* the closing line of a branch is printed once its calls have returned,
\* unless --quiet is given
ClosingLine(p, a) == p = "done" /\ ~a.quiet

\* one entry of the run's call log
Logged(c) == [op |-> c.op, arg |-> c.arg, ok |-> ~c.raised /\ c.ret, wrote |-> c.wrote]

\* a faulty variant of AfterLoad: the result of the load is not looked at
AfterLoadUnchecked(ret) == "calc"

\* where main goes after connect_and_load_data returned ret
AfterLoad(ret) == IF ret THEN "calc" ELSE "exited"

\* where the run goes after a renderer call: an exception leaves main and
\* reaches the handler of __main__, which exits with status 1
AfterCall(raised) == IF raised THEN "exited" ELSE "run"

InitCli ==
    /\ store \in CliTables
    /\ df = NoneDf
    /\ stats_globales = EmptyStats
    /\ stats_par_mode = NoModeStats
    /\ last = NoCall
    /\ files = {}
    /\ pc = "config"
    /\ args \in ArgSets
    /\ config = NoConfig
    /\ calls = <<>>
    /\ exit_code = NaN
    /\ batch = <<>>
    /\ CutIdle

\* lines 86-109: settle the configuration, or leave with status 1
CliConfig ==
    /\ pc = "config"
    /\ IF ConfigAborts(args)
       THEN pc' = "exited" /\ exit_code' = 1 /\ config' = config
       ELSE pc' = "load" /\ exit_code' = exit_code /\ config' = SelectedConfig(args)
    /\ UNCHANGED <<apiVars, args, calls, batch, cutVars>>

\* lines 117-122: build the instance and load
CliLoad ==
    /\ pc = "load"
    /\ \E o \in LoadOutcomes : connect_and_load_data(o)
    /\ calls' = Append(calls, Logged(last'))
    /\ pc' = AfterLoad(last'.ret)
    /\ exit_code' = IF last'.ret THEN exit_code ELSE 1
    /\ UNCHANGED <<files, args, config, batch, cutVars>>

\* line 128, then the choice of the branch
CliCalc ==
    /\ pc = "calc"
    /\ calculer_statistiques_globales
    /\ calls' = Append(calls, Logged(last'))
    /\ pc' = AfterCall(last'.raised)
    /\ exit_code' = IF last'.raised THEN 1 ELSE exit_code
    /\ batch' \in Plans(args, df.rows)
    /\ UNCHANGED <<files, args, config, cutVars>>

\* the --stats branch: prints the aggregates; strftime raises on an undefined period
StatsCall(stats) ==
    Call("stats", "", stats.periode_debut \notin {NaT, BadTime},
         stats.periode_debut \in {NaT, BadTime}, {}, "", NoIntensites)

\* a faulty variant of print_stats: the listing is also saved to a file
print_stats_fichier ==
    /\ last' = [StatsCall(stats_globales) EXCEPT !.wrote = {<<"statistiques", ".txt">>}]
    /\ UNCHANGED <<store, df, stats_globales, stats_par_mode>>

print_stats ==
    /\ last' = IF StatsCall(stats_globales).raised THEN StatsCall(stats_globales)
               ELSE [StatsCall(stats_globales)
                     EXCEPT !.parts = PartsStats(df.rows, stats_globales),
                            !.kg = kg_stats(stats_globales)]
    /\ UNCHANGED <<store, df, stats_globales, stats_par_mode>>

\* the call a plan item stands for
Exec(item, io) ==
    CASE item.op = "stats" -> print_stats
      [] item.op = "generer_rapport_pdf" -> generer_rapport_pdf(item.filename, item.arg, io)
      [] item.op = "generer_analyse_pdf" -> generer_analyse_pdf(item.filename, item.arg, io)
      [] item.op = "generer_analyse_textuelle" -> generer_analyse_textuelle(item.filename, io)
      [] item.op = "generer_rapport_utilisateur" ->
            generer_rapport_utilisateur(item.arg, item.filename, io)

\* one call of the chosen branch
CliStep ==
    /\ pc = "run"
    /\ batch # <<>>
    /\ \E io \in IoOutcomes : Exec(Head(batch), io)
    /\ calls' = Append(calls, Logged(last'))
    /\ files' = files \cup last'.wrote
    /\ pc' = AfterCall(last'.raised)
    /\ exit_code' = IF last'.raised THEN 1 ELSE exit_code
    /\ batch' = Tail(batch)
    /\ UNCHANGED <<args, config, cutVars>>

\* main returns: the process ends with status 0
CliDone ==
    /\ pc = "run"
    /\ batch = <<>>
    /\ pc' = "done"
    /\ exit_code' = 0
    /\ UNCHANGED <<apiVars, args, config, calls, batch, cutVars>>

\* except KeyboardInterrupt: the user interrupts main between two of its
\* steps; the handler of __main__ exits with status 1
CliInterrupt ==
    /\ pc \in {"config", "load", "calc", "run"}
    /\ pc' = "interrupted"
    /\ exit_code' = 1
    /\ UNCHANGED <<apiVars, args, config, calls, batch, cutVars>>

Next ==
    \/ CliConfig
    \/ CliLoad
    \/ CliCalc
    \/ CliStep
    \/ CliDone
    \/ CliInterrupt

Spec == InitCli /\ [][Next]_vars

----------------------------------------------------------------------------
(* SpecCut: the distance categories of _page_distribution_distances *)

PlusInf == Inf

\* bins_distance, in thousandths of a km
bins_distance == <<0, 1000, 5000, 10000, 20000, 50000, 100000, PlusInf>>

labels_distance == <<"<1km", "1-5km", "5-10km", "10-20km", "20-50km", "50-100km", ">100km">>

\* pd.cut with its defaults: bin i is the interval (bins[i], bins[i+1]],
\* open on the left, closed on the right, the lowest edge not included
InBin(d, i) ==
    /\ bins_distance[i] < d
    /\ (bins_distance[i + 1] = PlusInf \/ d <= bins_distance[i + 1])

BinsOf(d) == { i \in 1..Len(labels_distance) : InBin(d, i) }

\* the category pd.cut gives a value: the label of its bin, NaN where no bin holds it
pd_cut(d) ==
    IF d = NaN \/ BinsOf(d) = {} THEN "NaN"
    ELSE labels_distance[CHOOSE i \in BinsOf(d) : TRUE]

\* the distances tried: every half km from 0 to MaxDistanceKm
Distances == { k * 500 : k \in 0..(2 * MaxDistanceKm) }

InitCut ==
    /\ store = <<>>
    /\ df = NoneDf
    /\ stats_globales = EmptyStats
    /\ stats_par_mode = NoModeStats
    /\ last = NoCall
    /\ CliIdle
    /\ trajets_par_user = <<>> /\ selection = NoTop
    /\ segments = <<>> /\ user_segments = <<>>
    /\ distance \in Distances
    /\ categorie = "pending"

CutDistance ==
    /\ categorie = "pending"
    /\ categorie' = pd_cut(distance)
    /\ UNCHANGED <<apiVars, cliVars, distance,
                   trajets_par_user, selection, segments, user_segments>>

NextCut == CutDistance

SpecCut == InitCut /\ [][NextCut]_vars

----------------------------------------------------------------------------
(* SpecUsers: the rankings and the activity segments of the users, from the
   number of trips of each *)

\* the tables tried, as the trips they hold per user: every user of the
\* table has one trip at least
TrajetsParUser ==
    UNION { [U -> 1..MaxTrajets] : U \in SUBSET {"u1", "u2", "u3"} }

TopDix == 10

\* the four counts of the segmentation, each the len of a selection
Segmentation(t) ==
    [tres_actifs |-> Cardinality({ u \in DOMAIN t : t[u] > 50 }),
     actifs |-> Cardinality({ u \in DOMAIN t : t[u] >= 20 /\ t[u] <= 50 }),
     moyens |-> Cardinality({ u \in DOMAIN t : t[u] >= 10 /\ t[u] < 20 }),
     occasionnels |-> Cardinality({ u \in DOMAIN t : t[u] < 10 })]

\* bins and labels of the cut of the trips per user
bins_segments == <<0, 10, 20, 50, PlusInf>>
labels_segments == <<"Occasionnel", "Moyen", "Actif", "Très actif">>

\* pd.cut(trajets_par_user, bins, labels), for one count: bin i is the
\* interval (bins[i], bins[i+1]], NaN where no bin holds the count
pd_cut_segment(n) ==
    LET B == { i \in 1..Len(labels_segments) :
                 /\ bins_segments[i] < n
                 /\ (bins_segments[i + 1] = PlusInf \/ n <= bins_segments[i + 1]) }
    IN IF B = {} THEN "NaN" ELSE labels_segments[CHOOSE i \in B : TRUE]

InitUsers ==
    /\ store = <<>>
    /\ df = NoneDf
    /\ stats_globales = EmptyStats
    /\ stats_par_mode = NoModeStats
    /\ last = NoCall
    /\ CliIdle
    /\ distance = 0 /\ categorie = "idle"
    /\ trajets_par_user \in TrajetsParUser
    /\ selection = NoTop
    /\ segments = <<>>
    /\ user_segments = <<>>

\* cli.py 216: value_counts().head(args.users).index, args.users being truthy
TopUsers ==
    /\ selection = NoTop /\ user_segments = <<>>
    /\ \E n \in (-1..MaxUsersArg) \ {0}, o \in sort_values(trajets_par_user) :
          selection' = [op |-> "users", n |-> n, index |-> head(o, n)]
    /\ UNCHANGED <<apiVars, cliVars, distance, categorie,
                   trajets_par_user, segments, user_segments>>

\* cli.py 261: value_counts().head(5).index
TopAll ==
    /\ selection = NoTop /\ user_segments = <<>>
    /\ \E o \in sort_values(trajets_par_user) :
          selection' = [op |-> "all", n |-> TopCinq, index |-> head(o, TopCinq)]
    /\ UNCHANGED <<apiVars, cliVars, distance, categorie,
                   trajets_par_user, segments, user_segments>>

\* _page_top_utilisateurs: value_counts().head(10)
TopTrajets ==
    /\ selection = NoTop /\ user_segments = <<>>
    /\ \E o \in sort_values(trajets_par_user) :
          selection' = [op |-> "top_trajets", n |-> TopDix, index |-> head(o, TopDix)]
    /\ UNCHANGED <<apiVars, cliVars, distance, categorie,
                   trajets_par_user, segments, user_segments>>

\* _page_analyse_comportementale: the segment counts, then the cut
Segmenter ==
    /\ selection = NoTop /\ user_segments = <<>>
    /\ trajets_par_user # <<>>
    /\ segments' = Segmentation(trajets_par_user)
    /\ user_segments' = [u \in DOMAIN trajets_par_user |->
                            pd_cut_segment(trajets_par_user[u])]
    /\ UNCHANGED <<apiVars, cliVars, distance, categorie,
                   trajets_par_user, selection>>

NextUsers == TopUsers \/ TopAll \/ TopTrajets \/ Segmenter

SpecUsers == InitUsers /\ [][NextUsers]_vars

----------------------------------------------------------------------------
(* Properties of the loader, the aggregator and the renderers (SpecApi) *)

RECURSIVE SumOver(_, _, _)
\* the sum of field f of by[m] over the modes m of S
SumOver(by, S, f) ==
    IF S = {} THEN 0
    ELSE LET m == CHOOSE x \in S : TRUE
         IN by[m][f] + SumOver(by, S \ {m}, f)

\* the statistics held are those of the table held
StatsCurrent ==
    /\ ~df.isNone /\ df.typed
    /\ ~stats_globales.empty /\ stats_par_mode.defined
    /\ stats_globales = GlobalStats(df.rows)
    /\ stats_par_mode.by = ModeStats(df.rows)

JustAggregated ==
    last.op = "calculer_statistiques_globales" /\ ~last.raised /\ StatsCurrent

\* C1: when connect_and_load_data returns False (connection, query or
\* conversion failure), it has not raised and self.df is the empty/undefined
\* table, never a fetched one.
C1_FailedLoadLeavesNoTable ==
    (last.op = "connect_and_load_data" /\ ~last.ret) => (~last.raised /\ df.isNone)

\* C4: generer_rapport_utilisateur for a user matching no row of the table
\* writes no file, emits the 'no data' diagnostic, returns without raising
\* and leaves the table and the aggregates as they were.
C4_AbsentUserNoReport ==
    [][ (/\ last'.op = "generer_rapport_utilisateur"
         /\ ~df.isNone
         /\ UserRows(df.rows, last'.arg) = <<>>)
        => (/\ last'.wrote = {}
            /\ last'.diag = "aucune_donnee"
            /\ ~last'.raised
            /\ df' = df
            /\ stats_globales' = stats_globales
            /\ stats_par_mode' = stats_par_mode) ]_vars

\* C4 witness: a loaded, non-empty table, and a report asked for a user who
\* has no row in it.
C4_Witness ==
    /\ last.op = "generer_rapport_utilisateur"
    /\ ~df.isNone /\ Len(df.rows) > 0
    /\ UserRows(df.rows, last.arg) = <<>>
    /\ last.diag = "aucune_donnee"

\* C6: for a non-empty table, after calculer_statistiques_globales the
\* per-mode distance, duration and emission sums add up to distance_totale,
\* duree_totale and emission_totale (rows with a missing mode included).
C6_ModeSumsAddUp ==
    (JustAggregated /\ Len(df.rows) > 0) =>
        /\ SumOver(stats_par_mode.by, DOMAIN stats_par_mode.by, "distance_sum")
             = stats_globales.distance_totale
        /\ SumOver(stats_par_mode.by, DOMAIN stats_par_mode.by, "duree_sum")
             = stats_globales.duree_totale
        /\ SumOver(stats_par_mode.by, DOMAIN stats_par_mode.by, "emission_sum")
             = stats_globales.emission_totale

\* C7: the per-mode trip counts sum to nombre_trajets and the percentages
\* count / nombre_trajets * 100 sum to 100 (stated without the division:
\* the counts times 100 sum to 100 times nombre_trajets), also with rows
\* whose mode or user is missing.
C7_ModeCountsAddUp ==
    (JustAggregated /\ Len(df.rows) > 0) =>
        /\ SumOver(stats_par_mode.by, DOMAIN stats_par_mode.by, "count")
             = stats_globales.nombre_trajets
        /\ 100 * SumOver(stats_par_mode.by, DOMAIN stats_par_mode.by, "count")
             = 100 * stats_globales.nombre_trajets

\* the last call was a renderer that reported per-mode intensities
ReportedIntensites ==
    /\ last.op \in {"generer_rapport_html", "generer_analyse_html",
                    "generer_analyse_pdf", "generer_analyse_textuelle"}
    /\ ~last.raised

\* C8: for every mode whose distance sum is zero, every renderer that
\* reports a per-mode carbon intensity reports the sentinel zero, not the
\* quotient emission sum / distance sum.
C8_ZeroDistanceSentinel ==
    ReportedIntensites =>
        \A m \in DOMAIN last.intensites :
            ModeStats(df.rows)[m].distance_sum = 0 => last.intensites[m] = 0

\* the table of the round-trip scenario: one bike trip of 4.0 km, 20 min, 5 g
OneBikeTrip(rows) ==
    /\ Len(rows) = 1
    /\ rows[1].mode_transport = "bike"
    /\ rows[1].distance = 4000
    /\ rows[1].duration_in_minutes = 20000
    /\ rows[1].emission_co2 = 5000

\* C10: for the table of exactly one trip (bike, 4.0 km, 20 min, 5 g) the
\* global statistics are nombre_trajets 1, distance_totale 4.0,
\* distance_moyenne 4.0, emission_totale 5, emission_moyenne 5, and the
\* intensity reported for "bike" is 1.25 g/km.
C10_OneBikeTripScenario ==
    (ReportedIntensites /\ StatsCurrent /\ OneBikeTrip(df.rows)) =>
        /\ stats_globales.nombre_trajets = 1
        /\ stats_globales.distance_totale = 4000
        /\ stats_globales.distance_moyenne = 4000
        /\ stats_globales.emission_totale = 5000
        /\ stats_globales.emission_moyenne = 5000
        /\ last.intensites["bike"] = 1250

\* C17: whatever loads and aggregations were made on the instance, the
\* statistics it holds are those of the table it holds now: stats_globales
\* and stats_par_mode are both computed from self.df as it is, never from
\* an earlier table, and never one of them without the other.
C17_StatsDescribeCurrentTable ==
    (~stats_globales.empty \/ stats_par_mode.defined) =>
        /\ ~df.isNone
        /\ ~stats_globales.empty /\ stats_par_mode.defined
        /\ stats_globales = GlobalStats(df.rows)
        /\ stats_par_mode.by = ModeStats(df.rows)

\* the last call was the aggregation, made on a loaded table of no rows
AggregatedEmptyTable ==
    /\ last.op = "calculer_statistiques_globales"
    /\ ~df.isNone /\ df.typed /\ df.rows = <<>>

\* C18: calculer_statistiques_globales on an empty trip table returns
\* without raising; the trip count and the user count are 0, the three
\* sums are 0, the three means are undefined (NaN) and the start and the
\* end of the period are undefined (NaT).
C18_EmptyTableStatistics ==
    AggregatedEmptyTable =>
        /\ ~last.raised /\ last.ret
        /\ ~stats_globales.empty
        /\ stats_globales.nombre_trajets = 0
        /\ stats_globales.nombre_utilisateurs = 0
        /\ stats_globales.distance_totale = 0
        /\ stats_globales.duree_totale = 0
        /\ stats_globales.emission_totale = 0
        /\ stats_globales.distance_moyenne = NaN
        /\ stats_globales.duree_moyenne = NaN
        /\ stats_globales.emission_moyenne = NaN
        /\ stats_globales.periode_debut = NaT
        /\ stats_globales.periode_fin = NaT

\* C18 witness: an empty table was loaded and aggregated.
C18_Witness ==
    AggregatedEmptyTable /\ ~last.raised /\ stats_globales.nombre_trajets = 0

\* row r of the table is row s of the store, with the missing-value marker
\* in the measures that were no number and nothing else changed
CoercedFrom(r, s) ==
    /\ \A f \in Measures : r[f] = IF s[f] = BAD THEN NaN ELSE s[f]
    /\ r.utilisateur = s.utilisateur
    /\ r.mode_transport = s.mode_transport
    /\ r.start_time = s.start_time

\* C19: a record whose distance, duration or emission is no number does
\* not make the load fail.  A load that returns success holds every record
\* of the store, with the missing-value marker in the unparseable fields
\* only; and a load that fetched the records and then failed did so on a
\* timestamp, never on a number.
C19_UnparseableNumberCoerced ==
    [][ (last'.op = "connect_and_load_data" /\ store' = store)
        => /\ last'.ret =>
                /\ ~df'.isNone
                /\ Len(df'.rows) = Len(store)
                /\ \A i \in 1..Len(store) : CoercedFrom(df'.rows[i], store[i])
           /\ (~last'.ret /\ df' # df) => to_datetime_raises(store) ]_vars

\* C19 witness: a successful load of a store holding a record with an
\* unparseable distance, now marked missing in the table.
C19_Witness ==
    /\ last.op = "connect_and_load_data" /\ last.ret
    /\ \E i \in 1..Len(df.rows) :
          /\ store[i].distance = BAD
          /\ df.rows[i].distance = NaN
          /\ df.rows[i].duration_in_minutes = store[i].duration_in_minutes

\* C21: the level shown for the global carbon intensity follows the
\* configurable thresholds (15, 50 and 100 g/km by default) in every
\* renderer that shows it: the strategic analysis in PDF shows the level
\* the strategic analysis in HTML shows for the same statistics and the
\* same thresholds.
C21_SameLevelPdfAndHtml ==
    (last.op \in {"generer_analyse_pdf", "generer_analyse_html"} /\ ~last.raised) =>
        last.niveau = niveau_html(intensite_globale(stats_globales), last.seuils)

\* the table of the two-record scenario: one car trip and one bike trip,
\* each of 3 km
CarAndBikeTrips(rows) ==
    /\ Len(rows) = 2
    /\ { rows[1].mode_transport, rows[2].mode_transport } = {"car", "bike"}
    /\ rows[1].distance = 3000 /\ rows[2].distance = 3000

\* the last call was a renderer that writes the recommendation on short car trips
ReportedCourts ==
    /\ last.op \in {"generer_analyse_textuelle", "generer_analyse_pdf"}
    /\ ~last.raised

Renderers ==
    {"generer_rapport_pdf", "generer_rapport_html", "generer_analyse_pdf",
     "generer_analyse_html", "generer_analyse_textuelle", "generer_rapport_utilisateur"}

\* C12: no renderer call changes the trip table (its rows, its columns, its
\* values) nor stats_globales nor stats_par_mode.
C12_RenderersChangeNothing ==
    [][ last'.op \in Renderers
        => (/\ df' = df
            /\ stats_globales' = stats_globales
            /\ stats_par_mode' = stats_par_mode) ]_vars

\* the rows of the table whose mode is exactly m
RowsOfMode(m) == { i \in 1..Len(df.rows) : df.rows[i].mode_transport = m }

\* C23: the per-mode groups are those of exact string equality on the
\* mode: every distinct mode string is a group of its own ("Car" is not
\* "car"), each group counts the records of exactly that string, and the
\* recommendation on short car trips counts only records whose mode is
\* exactly "car".
C23_ExactModeMatch ==
    /\ JustAggregated =>
          /\ DOMAIN stats_par_mode.by =
                { df.rows[i].mode_transport : i \in 1..Len(df.rows) } \ {NULL}
          /\ \A m \in DOMAIN stats_par_mode.by :
                stats_par_mode.by[m].count =
                    Cardinality({ i \in RowsOfMode(m) : df.rows[i].utilisateur # NULL })
    /\ ReportedCourts =>
          last.courts =
              Cardinality({ i \in RowsOfMode("car") :
                              df.rows[i].distance # NaN /\ df.rows[i].distance < 5000 })

\* C23 witness: a table with a "car" trip and a "Car" trip was aggregated
\* into two groups of one record each.
C23_Witness ==
    /\ JustAggregated
    /\ {"car", "Car"} \subseteq DOMAIN stats_par_mode.by
    /\ stats_par_mode.by["car"].count = 1
    /\ stats_par_mode.by["Car"].count = 1

C25_HighestEmitterAndShare ==
    (ReportedCourts /\ StatsCurrent /\ stats_globales.emission_totale > 0) =>
        /\ last.mode_max_co2 \in GroupKeys(df.rows)
        /\ \A m \in GroupKeys(df.rows) :
              EmissionSum(df.rows, m) <= EmissionSum(df.rows, last.mode_max_co2)
        /\ last.pct_max_co2 =
              PctOf(EmissionSum(df.rows, last.mode_max_co2), stats_globales.emission_totale)
        /\ last.pct_max_co2 > 0
        /\ last.pct_max_co2 <= 100 * 1000

----------------------------------------------------------------------------
(* Properties of the distance categories (SpecCut) *)

\* C9: the bucketing with edges 0, 1, 5, 10, 20, 50, 100, infinity puts every
\* non-negative distance, 0 and the edge values included, in exactly one of
\* the seven buckets.
C9_EveryDistanceHasOneBucket ==
    categorie # "pending" =>
        /\ Cardinality(BinsOf(distance)) = 1
        /\ \E i \in 1..Len(labels_distance) : categorie = labels_distance[i]

----------------------------------------------------------------------------
(* Properties of the rankings and of the activity segments (SpecUsers) *)

Ranked == selection.op # ""
Kept == { selection.index[i] : i \in 1..Len(selection.index) }

\* C26: the users kept by --users N, by the top 5 of --all and by the top 10
\* of the report are those with the most trips: no user left out has
\* strictly more trips than a user kept, and no user is kept twice.
C26_TopUsersByTripCount ==
    Ranked =>
        /\ Kept \subseteq DOMAIN trajets_par_user
        /\ \A i, j \in 1..Len(selection.index) :
              i # j => selection.index[i] # selection.index[j]
        /\ \A u \in DOMAIN trajets_par_user \ Kept : \A k \in Kept :
              trajets_par_user[u] <= trajets_par_user[k]

C26_Witness ==
    /\ selection.op = "users" /\ selection.n = 1
    /\ Cardinality(Kept) = 1
    /\ \E u \in DOMAIN trajets_par_user \ Kept : \E k \in Kept :
          trajets_par_user[u] < trajets_par_user[k]

Segmented == user_segments # <<>>

\* the segment of a user with n trips: more than 50, 20 to 50, 10 to 19,
\* fewer than 10
SegmentOfCount(n) ==
    IF n > 50 THEN "Très actif"
    ELSE IF n >= 20 THEN "Actif"
    ELSE IF n >= 10 THEN "Moyen"
    ELSE "Occasionnel"

UsersOfSegment(label) ==
    { u \in DOMAIN trajets_par_user : SegmentOfCount(trajets_par_user[u]) = label }

\* C28: on the page of the behavioural analysis every user is counted in
\* exactly one of the four activity segments, and the segment the cut gives
\* the user for the heatmap is that same segment, whatever the number of
\* trips, 10, 20 and 50 included.
C28_SegmentsAgree ==
    Segmented =>
        /\ segments.tres_actifs = Cardinality(UsersOfSegment("Très actif"))
        /\ segments.actifs = Cardinality(UsersOfSegment("Actif"))
        /\ segments.moyens = Cardinality(UsersOfSegment("Moyen"))
        /\ segments.occasionnels = Cardinality(UsersOfSegment("Occasionnel"))
        /\ segments.tres_actifs + segments.actifs + segments.moyens
             + segments.occasionnels = Cardinality(DOMAIN trajets_par_user)
        /\ \A u \in DOMAIN trajets_par_user :
              user_segments[u] = SegmentOfCount(trajets_par_user[u])

----------------------------------------------------------------------------
(* Properties of a CLI run (Spec) *)

LoadedBefore(i) ==
    \E j \in 1..(i - 1) : calls[j].op = "connect_and_load_data" /\ calls[j].ok

AggregatedBefore(i) ==
    \E j \in 1..(i - 1) : calls[j].op = "calculer_statistiques_globales" /\ LoadedBefore(j)

\* C2: in a CLI run the aggregation comes only after a load that returned
\* success and every renderer only after that aggregation; after a load
\* that reported failure neither is ever invoked.
C2_LoadThenAggregateThenRender ==
    /\ \A i \in DOMAIN calls :
          /\ calls[i].op = "calculer_statistiques_globales" => LoadedBefore(i)
          /\ calls[i].op \in Renderers => AggregatedBefore(i)
    /\ (\E j \in DOMAIN calls : calls[j].op = "connect_and_load_data" /\ ~calls[j].ok)
          => \A i \in DOMAIN calls :
                calls[i].op \notin Renderers \cup {"calculer_statistiques_globales"}

\* C2 witness: a run that loaded, aggregated and then completed a renderer call.
C2_Witness ==
    \E i \in DOMAIN calls : calls[i].op \in Renderers /\ calls[i].ok /\ AggregatedBefore(i)

\* C13: a CLI run that passed the argument parser, loaded and aggregated
\* executes exactly one branch of the dispatch, the one of the flag given,
\* whatever the value of the flag (--users 0 and --user-id '' included).
C13_ExactlyOneBranch ==
    pc \in {"run", "done"} => (Branch(args) # "none" /\ Branch(args) = args.scope)

\* the renderer an entry of the call log belongs to
Kind(c) ==
    CASE c.op \in {"generer_rapport_pdf", "generer_rapport_html"} -> "global"
      [] c.op \in {"generer_analyse_pdf", "generer_analyse_html"} -> "analyse"
      [] c.op = "generer_analyse_textuelle" -> "text"
      [] c.op = "generer_rapport_utilisateur" -> "user"
      [] OTHER -> "other"

\* the renderers called after the load and the aggregation, in order
KindsRun == [i \in 1..(Len(calls) - 2) |-> Kind(calls[i + 2])]

\* global report, illustrated analysis, text analysis, then k per-user reports
Suite(k) == <<"global", "analyse", "text">> \o [i \in 1..k |-> "user"]

\* C14: a completed --all run has called the renderers in the order global
\* report, illustrated analysis, text analysis, per-user reports of the (at
\* most 5) most active users, the whole sequence once per requested format:
\* once for pdf or html, twice for both.
C14_AllRunsSuitePerFormat ==
    (pc = "done" /\ args.all) =>
        LET k == Min(TopCinq, Cardinality(UsersOf(df.rows)))
        IN KindsRun = IF args.format = "both" THEN Suite(k) \o Suite(k) ELSE Suite(k)

\* the process has ended
Terminated == pc \in {"done", "exited", "interrupted"}

\* a call of the run reported failure or raised
FailedCall(ops) == \E i \in DOMAIN calls : calls[i].op \in ops /\ ~calls[i].ok

\* the command line and config.py give no host, no database or no user
MissingConfiguration ==
    ~(/\ Truthy(SelectedConfig(args).host)
      /\ Truthy(SelectedConfig(args).database)
      /\ Truthy(SelectedConfig(args).user))

\* C15: the process exits with status 0 when the selected action ran to
\* completion, and with a status other than 0 after a failed load, with a
\* required connection parameter missing, after a KeyboardInterrupt and
\* after an exception raised during the generation.
C15_ExitCodes ==
    Terminated =>
        /\ exit_code \in {0, 1}
        /\ pc = "done" => exit_code = 0
        /\ FailedCall({"connect_and_load_data"}) => exit_code # 0
        /\ MissingConfiguration => exit_code # 0
        /\ pc = "interrupted" => exit_code # 0
        /\ FailedCall(Renderers \cup {"calculer_statistiques_globales", "stats"})
              => exit_code # 0

\* C16: in a --stats run no renderer is called and no file is written; the
\* run only loads, aggregates and prints the statistics.
C16_StatsWritesNothing ==
    args.stats =>
        /\ files = {}
        /\ \A i \in DOMAIN calls :
              /\ calls[i].op \notin Renderers
              /\ calls[i].wrote = {}
              /\ calls[i].op \in {"connect_and_load_data",
                                  "calculer_statistiques_globales", "stats"}

\* C16 witness: a --stats run that printed the statistics and completed.
C16_Witness ==
    /\ args.stats /\ pc = "done"
    /\ \E i \in DOMAIN calls : calls[i].op = "stats" /\ calls[i].ok

\* the step is a renderer call of the run that produced its report
ProducedReport ==
    /\ pc = "run" /\ batch # <<>>
    /\ Len(calls') = Len(calls) + 1
    /\ last'.op \in Renderers
    /\ last'.diag = "genere"

\* the file name the call was given: the one passed, or the fixed default
\* of the per-user report where none was passed
GivenName(item) ==
    IF item.filename = NoName THEN <<"rapport_utilisateur_", item.arg, ".pdf">>
    ELSE item.filename

\* the call asked for the HTML format of the global report or of the analysis
AskedHtml(item) ==
    item.op \in {"generer_rapport_pdf", "generer_analyse_pdf"} /\ item.arg = "html"

\* name n is name p, each '.pdf' of it turned into '.html' where html holds
NamedFrom(n, p, html) ==
    /\ Len(n) = Len(p)
    /\ \A i \in 1..Len(p) : n[i] = IF html /\ p[i] = ".pdf" THEN ".html" ELSE p[i]

KgOutputs ==
    {"stats", "generer_analyse_textuelle", "generer_rapport_pdf", "generer_rapport_html",
     "generer_analyse_pdf", "generer_analyse_html"}

\* C22: every output writes the same number of kilograms for the total
\* emission of the same table: what the last output wrote is what the
\* --stats listing writes and what the reports and analyses write.
C22_OneEmissionUnit ==
    (last.op \in KgOutputs /\ ~last.raised) =>
        /\ last.kg = kg_stats(stats_globales)
        /\ last.kg = kg_rapport(stats_globales)

\* C27: with --format both and a name given by --output, the PDF and the
\* HTML of --global, and those of --analyse, are written at two different
\* paths: the second write never replaces the first, whatever the name given.
C27_BothFormatsTwoPaths ==
    (/\ args.format = "both" /\ args.output # NoName
     /\ Branch(args) \in {"global", "analyse"})
    => \A i, j \in 1..Len(calls) :
          (i < j /\ calls[i].ok /\ calls[j].ok) =>
              calls[i].wrote \cap calls[j].wrote = {}

UserReportsWritten ==
    Cardinality({ i \in 1..Len(calls) :
                    /\ calls[i].op = "generer_rapport_utilisateur"
                    /\ calls[i].wrote # {} })

\* C29: a run with --users N writes at most N per-user reports, exactly the
\* smaller of N and the number of users of the table, and the number its
\* closing line states is the number of reports written.
C29_UsersReportCount ==
    (pc = "done" /\ Branch(args) = "users") =>
        /\ UserReportsWritten <= args.users[1]
        /\ UserReportsWritten = Min(args.users[1], Cardinality(UsersOf(df.rows)))
        /\ ClosingLine(pc, args) => rapports_annonces(args) = UserReportsWritten

\* C30: with --user-id the line that announces a generated report is printed
\* only when a report file was written: for a user without a row the run
\* goes on to its end, writes nothing and announces no report.
C30_UserIdAnnouncesWrittenReport ==
    (Branch(args) = "user_id" /\ ClosingLine(pc, args)) =>
        /\ last.op = "generer_rapport_utilisateur"
        /\ last.wrote # {}
        /\ files # {}

\* C3: connect_and_load_data is never reached with an absent host, database
\* or user: an incomplete configuration aborts the run before any
\* connection attempt.
C3_NoConnectWithoutParameters ==
    (\E i \in DOMAIN calls : calls[i].op = "connect_and_load_data") =>
        (Truthy(config.host) /\ Truthy(config.database) /\ Truthy(config.user))

\* C5: in a batch of per-user reports (--users N, the top 5 of --all) a
\* failure raised by one user's report does not keep the reports of the
\* remaining users from being generated: when the run has ended after such
\* a failure, no per-user report of the batch is left unserved.
C5_BatchSurvivesOneFailure ==
    (/\ pc \in {"done", "exited"}
     /\ args.scope \in {"users", "all"}
     /\ \E i \in DOMAIN calls :
           calls[i].op = "generer_rapport_utilisateur" /\ ~calls[i].ok)
    => \A k \in DOMAIN batch : batch[k].op # "generer_rapport_utilisateur"

====
